---- MODULE Spec2Model ----
(***************************************************************************)
(* A model of the classcentral_crawler discovery-and-fetch orchestrator:   *)
(*   SpecLimiter  AsyncRateLimiter.wait under concurrent callers           *)
(*   SpecScrape   scrape_courses: the tasks of one batch, each through     *)
(*                the semaphore, _scrape_single_course and _fetch          *)
(*   SpecFetch    one _fetch, under every configured max_retries           *)
(*   SpecDom      _collect_listing_urls_dom                                *)
(*   SpecApi      _collect_listing_urls_api                                *)
(*   SpecCollect  collect_course_urls: discovery, DOM walk, API walk and   *)
(*                the union handed to scrape_courses                       *)
(*   SpecCanon    the canonicalization of one extracted link               *)
(*   SpecRun      run(): collect_course_urls, then scrape_courses on the   *)
(*                sorted set, for a small site                             *)
(*   SpecScrapeFair  scrape_courses under the event loop's fair scheduling *)
(*   SpecBackoff  one _fetch on the clock: backoff and limiter sleeps      *)
(* Each specification drives its own variables and leaves the others at    *)
(* their idle values.                                                      *)
(***************************************************************************)
EXTENDS Integers, Sequences, FiniteSets, TLC

(***************************************************************************)
(* Bounds of the model.                                                    *)
(***************************************************************************)
\* tasks that call AsyncRateLimiter.wait() in SpecLimiter
MaxCallers == 2
\* grants recorded in one behaviour of SpecLimiter
MaxGrants == 3
\* largest interval (1/rate), in clock ticks
MaxInterval == 2
\* last tick of the monotonic clock
MaxClock == 6
\* detail URLs handed to scrape_courses
MaxUrls == 3
\* largest CrawlConfig.concurrency
MaxConcurrency == 2
\* largest CrawlConfig.max_retries
MaxRetriesCfg == 5
\* links in one rendered page
MaxLinksPerPage == 2
\* largest CrawlConfig.max_listing_pages (200 by default) of one walker
MaxListingPages == 7
\* largest CrawlConfig.max_listing_pages of a whole collect_course_urls
MaxCollectPages == 3
\* detail URLs handed to scrape_courses under the fair scheduling
MaxLiveUrls == 2
\* last tick (second) of the clock of the timed _fetch
MaxBackoffClock == 12

VARIABLES
    \* ---- AsyncRateLimiter
    clock,        \* time.monotonic(), in ticks
    interval,     \* self._interval
    lock_owner,   \* self._lock: 0 when free, else the task holding it
    last_call,    \* self._last_call
    l_pc,         \* position of each caller inside wait()
    l_wake,       \* the time a sleeping caller's asyncio.sleep ends
    grant_times,  \* history: the values written to _last_call, in order
    \* ---- scrape_courses
    concurrency,  \* CrawlConfig.concurrency
    max_retries,  \* CrawlConfig.max_retries
    sem,          \* asyncio.Semaphore: free permits
    s_pc,         \* position of run(url) for each input URL (by index)
    outcomes,     \* history: the outcome of every client.get of each URL
    grants,       \* history: rate-limiter grants obtained for each URL
    fetched,      \* how _fetch ended for each URL: "pending", "response", "raised"
    extract_raised, \* history: parse_course raised for this URL
    result,       \* what run(url) returned: "pending", "record", "none", "raised"
    m_pc,         \* position of scrape_courses itself
    returned,     \* the list scrape_courses returns (URL indices of the records)
    \* ---- collect_course_urls
    max_listing_pages, \* CrawlConfig.max_listing_pages
    c_pc,         \* position of collect_course_urls
    endpoints,    \* what _discover_network_api returned (a sorted list)
    urls,         \* `urls` of _collect_listing_urls_dom / collect_course_urls
    dom_p,        \* the last page the DOM walker requested (1: the listing itself)
    dom_req,      \* history: the pages ?page=p the DOM walker requested
    dom_last,     \* history: what the last requested ?page=p yielded
    dom_raw,      \* history: every href the DOM walker extracted
    api_urls,     \* `urls` of _collect_listing_urls_api
    ep_idx,       \* index in endpoints of the endpoint being walked
    api_page,     \* the page the API walker requests next for that endpoint
    api_last,     \* history: the API walker's last request and what it yielded
    api_raw,      \* history: every link string the API walker extracted
    seen_urls,    \* self.seen_urls: the set handed on to scrape_courses
    \* ---- the canonicalization of one link
    cn_pc,        \* "input", "once" (canonicalized), "twice" (and once more)
    link_a,       \* an extracted link string
    link_b,       \* a link string that differs from link_a in the query only
    canon_a,      \* the canonicalization of link_a
    canon_b,      \* the canonicalization of link_b
    canon_aa,     \* the canonicalization of canon_a
    \* ---- one _fetch on the clock
    b_pc,         \* position of the _fetch call
    b_wake,       \* the time the current sleep (backoff or limiter) ends
    b_fail,       \* history: the time each failed attempt ended
    b_delays,     \* history: the backoff delay tenacity chose after each of them
    b_lsleep,     \* history: the time wait() chose to sleep before each attempt
    b_grant       \* history: the time wait() returned before each attempt

limiterVars == <<clock, interval, last_call, l_pc, l_wake, grant_times>>
scrapeVars == <<concurrency, max_retries, sem, s_pc, outcomes, grants, fetched,
                extract_raised, result, m_pc, returned>>

collectVars == <<max_listing_pages, c_pc, endpoints, urls, dom_p, dom_req, dom_last, dom_raw, api_urls,
                 ep_idx, api_page, api_last, api_raw, seen_urls>>

canonVars == <<cn_pc, link_a, link_b, canon_a, canon_b, canon_aa>>

backoffVars == <<b_pc, b_wake, b_fail, b_delays, b_lsleep, b_grant>>

vars == <<clock, interval, lock_owner, last_call, l_pc, l_wake, grant_times,
          concurrency, max_retries, sem, s_pc, outcomes, grants, fetched,
          extract_raised, result, m_pc, returned,
          max_listing_pages, c_pc, endpoints, urls, dom_p, dom_req, dom_last, dom_raw, api_urls,
          ep_idx, api_page, api_last, api_raw, seen_urls,
          cn_pc, link_a, link_b, canon_a, canon_b, canon_aa,
          b_pc, b_wake, b_fail, b_delays, b_lsleep, b_grant>>

\* the variables of the timed _fetch when none is followed
BackoffIdle ==
    /\ b_pc = "idle"
    /\ b_wake = 0
    /\ b_fail = <<>>
    /\ b_delays = <<>>
    /\ b_lsleep = <<>>
    /\ b_grant = <<>>

\* the variables of the canonicalization when no link is being canonicalized
CanonIdle ==
    /\ cn_pc = "idle"
    /\ link_a = <<>>
    /\ link_b = <<>>
    /\ canon_a = <<>>
    /\ canon_b = <<>>
    /\ canon_aa = <<>>

\* the variables of scrape_courses when no batch is running
ScrapeIdle ==
    /\ concurrency = 0
    /\ max_retries = 0
    /\ sem = 0
    /\ s_pc = <<>>
    /\ outcomes = <<>>
    /\ grants = <<>>
    /\ fetched = <<>>
    /\ extract_raised = <<>>
    /\ result = <<>>
    /\ m_pc = "idle"
    /\ returned = <<>>

\* the variables of collect_course_urls when no discovery is running
CollectIdle ==
    /\ max_listing_pages = 0
    /\ c_pc = "idle"
    /\ endpoints = <<>>
    /\ urls = {}
    /\ dom_p = 0
    /\ dom_req = <<>>
    /\ dom_last = <<>>
    /\ dom_raw = {}
    /\ api_urls = {}
    /\ ep_idx = 0
    /\ api_page = 0
    /\ api_last = <<>>
    /\ api_raw = {}
    /\ seen_urls = {}

(***************************************************************************)
(* AsyncRateLimiter                                                        *)
(***************************************************************************)
Callers == 1..MaxCallers

\* a mutex that never excludes anybody
LockAvailableNoMutex == TRUE

\* `async with self._lock` can be entered
LockAvailable == lock_owner = 0

\* __init__: _interval = 1/rate (rate > 0), the lock free, _last_call = 0.0.
\* The monotonic clock starts anywhere.
LimiterInit ==
    /\ clock \in 0..MaxInterval
    /\ interval \in 1..MaxInterval
    /\ lock_owner = 0
    /\ last_call = 0
    /\ l_pc = [t \in Callers |-> "idle"]
    /\ l_wake = [t \in Callers |-> 0]
    /\ grant_times = <<>>
    /\ ScrapeIdle
    /\ CollectIdle
    /\ CanonIdle
    /\ BackoffIdle

\* a task calls wait() and queues on the lock
LCall(t) ==
    /\ l_pc[t] = "idle"
    /\ Len(grant_times) + Cardinality({u \in Callers : l_pc[u] # "idle"}) < MaxGrants
    /\ l_pc' = [l_pc EXCEPT ![t] = "want"]
    /\ UNCHANGED <<clock, interval, lock_owner, last_call, l_wake, grant_times, scrapeVars, collectVars, canonVars, backoffVars>>

\* the lock is taken; now = monotonic(); delta = now - _last_call;
\* if delta < _interval the task suspends in asyncio.sleep(_interval - delta)
LEnter(t) ==
    /\ l_pc[t] = "want"
    /\ LockAvailable
    /\ lock_owner' = t
    /\ LET delta == clock - last_call IN
         IF delta < interval
         THEN /\ l_pc' = [l_pc EXCEPT ![t] = "sleeping"]
              /\ l_wake' = [l_wake EXCEPT ![t] = clock + (interval - delta)]
         ELSE /\ l_pc' = [l_pc EXCEPT ![t] = "record"]
              /\ UNCHANGED l_wake
    /\ UNCHANGED <<clock, interval, last_call, grant_times, scrapeVars, collectVars, canonVars, backoffVars>>

\* asyncio.sleep returns, not before its delay has passed
LWake(t) ==
    /\ l_pc[t] = "sleeping"
    /\ clock >= l_wake[t]
    /\ l_pc' = [l_pc EXCEPT ![t] = "record"]
    /\ UNCHANGED <<clock, interval, lock_owner, last_call, l_wake, grant_times, scrapeVars, collectVars, canonVars, backoffVars>>

\* _last_call = monotonic(), and the lock is released on leaving the block
LRecord(t) ==
    /\ l_pc[t] = "record"
    /\ last_call' = clock
    /\ grant_times' = Append(grant_times, clock)
    /\ lock_owner' = 0
    /\ l_pc' = [l_pc EXCEPT ![t] = "idle"]
    /\ UNCHANGED <<clock, interval, l_wake, scrapeVars, collectVars, canonVars, backoffVars>>

\* time passes
Tick ==
    /\ clock < MaxClock
    /\ clock' = clock + 1
    /\ UNCHANGED <<interval, lock_owner, last_call, l_pc, l_wake, grant_times, scrapeVars, collectVars, canonVars, backoffVars>>

LimiterNext ==
    \/ \E t \in Callers : LCall(t)
    \/ \E t \in Callers : LEnter(t)
    \/ \E t \in Callers : LWake(t)
    \/ \E t \in Callers : LRecord(t)
    \/ Tick

SpecLimiter == LimiterInit /\ [][LimiterNext]_vars

(***************************************************************************)
(* C1: on one limiter with interval I = 1/rate, in every interleaving any  *)
(* two consecutive recorded grant times are at least I apart, N grants     *)
(* span at least (N-1)*I, and at most one caller is between the read of    *)
(* _last_call and the write of the new value.                              *)
(***************************************************************************)
InCritical(t) == l_pc[t] \in {"sleeping", "record"}

C1_GrantsSpaced ==
    /\ \A i \in 1..(Len(grant_times) - 1) :
          grant_times[i + 1] - grant_times[i] >= interval
    /\ Len(grant_times) >= 1 =>
          grant_times[Len(grant_times)] - grant_times[1]
             >= (Len(grant_times) - 1) * interval
    /\ \A t, u \in Callers : InCritical(t) /\ InCritical(u) => t = u
    /\ \A t \in Callers : InCritical(t) => lock_owner = t

\* three grants recorded while another caller was queued behind a sleeper
C1_Witness ==
    /\ Len(grant_times) = MaxGrants
    /\ grant_times[2] - grant_times[1] = interval
    /\ interval = MaxInterval

(***************************************************************************)
(* _fetch, _scrape_single_course, scrape_courses                           *)
(*                                                                         *)
(* A task is one run(url).  Its positions:                                 *)
(*   "sem"      waiting for a permit of the semaphore                      *)
(*   "limiter"  in rate_limiter.wait(), waiting for the limiter's lock     *)
(*   "inlock"   in rate_limiter.wait(), holding the lock                   *)
(*   "get"      awaiting client.get(url)                                   *)
(*   "backoff"  in tenacity's sleep between two attempts                   *)
(*   "done"     run(url) has returned                                      *)
(* parse_course is synchronous: it runs in the step that ends the GET.     *)
(* The limiter's timing is the subject of SpecLimiter; here wait() is its  *)
(* lock and the grant it ends with.                                        *)
(***************************************************************************)

\* stop=stop_after_attempt(4)
StopAfterAttempt == 4

\* CrawlConfig.max_retries: int = 4
DefaultMaxRetries == 4

Tasks == DOMAIN s_pc

\* what one client.get + raise_for_status can do: return a response, raise
\* an httpx.HTTPError (network failure or error status), raise anything else
GetOutcomes == {"ok", "http_error", "other_error"}

\* a retry predicate that retries whatever the attempt did
RetryIfAlways(outcome) == TRUE

\* retry=retry_if_exception_type(httpx.HTTPError)
RetryIf(outcome) == outcome = "http_error"

\* a retry that re-enters the function after its rate-limiter call
RetryEntrySkipsLimiter == "get"

\* the decorator wraps the whole of _fetch: a retry starts at wait() again
RetryEntry == "limiter"

\* a handler that catches the HTTP errors only
CaughtHttpOnly(exc) == exc = "http_error"

\* `except Exception` in _scrape_single_course
Caught(exc) == exc \in {"http_error", "other_error", "extract_error"}

\* a semaphore that never blocks
SemAvailableUnbounded == TRUE

\* `async with sem` can be entered
SemAvailable == sem > 0

\* a result list in the reverse of the input's order
RECURSIVE RecordsReversed(_, _)
RecordsReversed(res, i) ==
    IF i > Len(res) THEN <<>>
    ELSE RecordsReversed(res, i + 1) \o (IF res[i] = "record" THEN <<i>> ELSE <<>>)

\* [r for r in results if r]: the records, in the order of the input
RECURSIVE Records(_, _)
Records(res, i) ==
    IF i > Len(res) THEN <<>>
    ELSE (IF res[i] = "record" THEN <<i>> ELSE <<>>) \o Records(res, i + 1)

\* scrape_courses(urls) is called: the semaphore is made and gather starts
\* one task per URL
ScrapeStart(n, c, r) ==
    /\ concurrency = c
    /\ max_retries = r
    /\ sem = c
    /\ lock_owner = 0
    /\ s_pc = [t \in 1..n |-> "sem"]
    /\ outcomes = [t \in 1..n |-> <<>>]
    /\ grants = [t \in 1..n |-> 0]
    /\ fetched = [t \in 1..n |-> "pending"]
    /\ extract_raised = [t \in 1..n |-> FALSE]
    /\ result = [t \in 1..n |-> "pending"]
    /\ m_pc = "gather"
    /\ returned = <<>>

\* the variables of the limiter's own specification, unused
LimiterIdle ==
    /\ clock = 0
    /\ interval = 0
    /\ last_call = 0
    /\ l_pc = <<>>
    /\ l_wake = <<>>
    /\ grant_times = <<>>

\* a batch of up to MaxUrls URLs under the default max_retries
ScrapeInit ==
    /\ \E n \in 0..MaxUrls, c \in 1..MaxConcurrency : ScrapeStart(n, c, DefaultMaxRetries)
    /\ LimiterIdle
    /\ CollectIdle
    /\ CanonIdle
    /\ BackoffIdle

\* one URL, under every configured max_retries
FetchInit ==
    /\ \E r \in 1..MaxRetriesCfg : ScrapeStart(1, 1, r)
    /\ LimiterIdle
    /\ CollectIdle
    /\ CanonIdle
    /\ BackoffIdle

\* `async with sem`: a permit is taken
SemAcquire(t) ==
    /\ s_pc[t] = "sem"
    /\ SemAvailable
    /\ sem' = sem - 1
    /\ s_pc' = [s_pc EXCEPT ![t] = "limiter"]
    /\ UNCHANGED <<lock_owner, concurrency, max_retries, outcomes, grants,
                   fetched, extract_raised, result, m_pc, returned, limiterVars, collectVars, canonVars, backoffVars>>

\* rate_limiter.wait(): the lock is taken
WaitEnter(t) ==
    /\ s_pc[t] = "limiter"
    /\ LockAvailable
    /\ lock_owner' = t
    /\ s_pc' = [s_pc EXCEPT ![t] = "inlock"]
    /\ UNCHANGED <<sem, concurrency, max_retries, outcomes, grants,
                   fetched, extract_raised, result, m_pc, returned, limiterVars, collectVars, canonVars, backoffVars>>

\* a wait() that returns with the lock still held
LockAfterWaitHeld(t) == t

\* the owner of the lock after the exit of `async with self._lock`: none
LockAfterWait(t) == 0

\* rate_limiter.wait(): the grant is recorded, the lock released, and
\* client.get(url) is sent
WaitLeave(t) ==
    /\ s_pc[t] = "inlock"
    /\ lock_owner' = LockAfterWait(t)
    /\ grants' = [grants EXCEPT ![t] = @ + 1]
    /\ s_pc' = [s_pc EXCEPT ![t] = "get"]
    /\ UNCHANGED <<sem, concurrency, max_retries, outcomes, fetched,
                   extract_raised, result, m_pc, returned, limiterVars, collectVars, canonVars, backoffVars>>

\* where an exception leaving _fetch or parse_course takes the task:
\* _scrape_single_course logs it and returns None, or it escapes run(url)
AfterException(exc) == IF Caught(exc) THEN "none" ELSE "raised"

\* the backoff sleep ends and the next attempt starts
BackoffDone(t) ==
    /\ s_pc[t] = "backoff"
    /\ s_pc' = [s_pc EXCEPT ![t] = RetryEntry]
    /\ UNCHANGED <<lock_owner, sem, concurrency, max_retries, outcomes, grants,
                   fetched, extract_raised, result, m_pc, returned, limiterVars, collectVars, canonVars, backoffVars>>

\* what _scrape_single_course returns once _fetch has ended with outcome o:
\* the record parse_course makes of the response, or None for an exception
\* it catches
ScrapeResult(o, raises) ==
    IF o # "ok" THEN AfterException(o)
    ELSE IF raises THEN AfterException("extract_error")
    ELSE "record"

\* an exit of `async with sem` that frees the permit only when a record is
\* returned
PermitsFreedOnRecord(res) == IF res = "record" THEN 1 ELSE 0

\* the permits the exit of `async with sem` frees, whatever run(url)
\* returns or raises
PermitsFreed(res) == 1

\* client.get(url) and raise_for_status() end.  tenacity sleeps and calls
\* _fetch again when the outcome is one it retries and the attempt is not
\* the last.  Otherwise _fetch returns the response or (reraise=True) raises
\* the attempt's error, and with no further suspension parse_course runs
\* (it may raise), _scrape_single_course returns, and run(url) leaves
\* `async with sem`, by return or by exception: the permit is freed
GetReturns(t, o, raises) ==
    /\ s_pc[t] = "get"
    /\ outcomes' = [outcomes EXCEPT ![t] = Append(@, o)]
    /\ IF RetryIf(o) /\ Len(outcomes[t]) + 1 < StopAfterAttempt
       THEN /\ s_pc' = [s_pc EXCEPT ![t] = "backoff"]
            /\ UNCHANGED <<fetched, extract_raised, result, sem>>
       ELSE /\ fetched' = [fetched EXCEPT ![t] = IF o = "ok" THEN "response" ELSE "raised"]
            /\ extract_raised' = [extract_raised EXCEPT ![t] = (o = "ok" /\ raises)]
            /\ result' = [result EXCEPT ![t] = ScrapeResult(o, raises)]
            /\ sem' = sem + PermitsFreed(ScrapeResult(o, raises))
            /\ s_pc' = [s_pc EXCEPT ![t] = "done"]
    /\ UNCHANGED <<lock_owner, concurrency, max_retries, grants,
                   m_pc, returned, limiterVars, collectVars, canonVars, backoffVars>>

\* asyncio.gather ends: with the first exception a task raised, or with all
\* results, of which scrape_courses returns the records
Gather ==
    /\ m_pc = "gather"
    /\ IF \E t \in Tasks : s_pc[t] = "done" /\ result[t] = "raised"
       THEN /\ m_pc' = "raised"
            /\ UNCHANGED returned
       ELSE /\ \A t \in Tasks : s_pc[t] = "done"
            /\ m_pc' = "returned"
            /\ returned' = Records(result, 1)
    /\ UNCHANGED <<lock_owner, sem, concurrency, max_retries, s_pc, outcomes,
                   grants, fetched, extract_raised, result, limiterVars, collectVars, canonVars, backoffVars>>

ScrapeNext ==
    \/ \E t \in Tasks : SemAcquire(t)
    \/ \E t \in Tasks : WaitEnter(t)
    \/ \E t \in Tasks : WaitLeave(t)
    \/ \E t \in Tasks, o \in GetOutcomes, raises \in BOOLEAN : GetReturns(t, o, raises)
    \/ \E t \in Tasks : BackoffDone(t)
    \/ Gather

SpecScrape == ScrapeInit /\ [][ScrapeNext]_vars

SpecFetch == FetchInit /\ [][ScrapeNext]_vars

\* the steps of run(url) for the URL of task t
TaskStep(t) ==
    \/ SemAcquire(t)
    \/ WaitEnter(t)
    \/ WaitLeave(t)
    \/ \E o \in GetOutcomes, raises \in BOOLEAN : GetReturns(t, o, raises)
    \/ BackoffDone(t)

\* the scheduling of a batch: the event loop resumes every task that
\* stays able to run (a permit or the lock stays free for it, its
\* client.get has returned or raised within the client's timeout, its
\* backoff sleep has ended), and gather returns once its tasks are done
ScrapeFairness ==
    /\ \A t \in 1..MaxLiveUrls : WF_vars(t \in Tasks /\ TaskStep(t))
    /\ WF_vars(Gather)

\* a batch of up to MaxLiveUrls URLs under the default max_retries
LiveInit ==
    /\ \E n \in 0..MaxLiveUrls, c \in 1..MaxConcurrency : ScrapeStart(n, c, DefaultMaxRetries)
    /\ LimiterIdle
    /\ CollectIdle
    /\ CanonIdle
    /\ BackoffIdle

SpecScrapeFair == LiveInit /\ [][ScrapeNext]_vars /\ ScrapeFairness

(***************************************************************************)
(* One _fetch on the clock: the sleeps of tenacity between the attempts    *)
(* and of AsyncRateLimiter.wait() before each attempt, in ticks of one     *)
(* second.  The other tasks of the batch appear as grants of the shared    *)
(* limiter while this one sleeps.                                          *)
(*                                                                         *)
(* Positions: "limiter" at wait(), "lsleep" asleep inside wait(), "get"    *)
(* in client.get, "backoff" asleep between two attempts, "done".           *)
(***************************************************************************)

\* wait_exponential(multiplier=1, min=1, max=8); exp_base is 2 by default
WaitMultiplier == 1
WaitMin == 1
WaitMax == 8
ExpBase == 2

Max2(a, b) == IF a >= b THEN a ELSE b
Min2(a, b) == IF a <= b THEN a ELSE b

\* a wait that doubles from the first retry on: multiplier * exp_base^n
WaitExponentialFromBase(attempt_number) ==
    Max2(Max2(0, WaitMin), Min2(WaitMultiplier * ExpBase ^ attempt_number, WaitMax))

\* wait_exponential.__call__ after the attempt attempt_number has failed:
\* max(max(0, min), min(multiplier * exp_base ** (attempt_number - 1), max))
WaitExponential(attempt_number) ==
    Max2(Max2(0, WaitMin), Min2(WaitMultiplier * ExpBase ^ (attempt_number - 1), WaitMax))

\* the attempt being made or slept for
Attempt == Len(b_grant) + (IF b_pc \in {"limiter", "lsleep"} THEN 1 ELSE 0)

\* _fetch is called at some time after the limiter's last grant
BackoffInit ==
    /\ clock \in 0..MaxInterval
    /\ interval \in 0..MaxInterval
    /\ last_call = 0
    /\ lock_owner = 0
    /\ l_pc = <<>>
    /\ l_wake = <<>>
    /\ grant_times = <<>>
    /\ b_pc = "limiter"
    /\ b_wake = 0
    /\ b_fail = <<>>
    /\ b_delays = <<>>
    /\ b_lsleep = <<>>
    /\ b_grant = <<>>
    /\ ScrapeIdle
    /\ CollectIdle
    /\ CanonIdle

\* wait(): with less than the interval elapsed since the last grant the
\* task sleeps for the rest of it, else the grant is recorded at once
BWait ==
    /\ b_pc = "limiter"
    /\ LET delta == clock - last_call
       IN IF delta < interval
          THEN /\ b_pc' = "lsleep"
               /\ b_wake' = clock + (interval - delta)
               /\ b_lsleep' = Append(b_lsleep, interval - delta)
               /\ UNCHANGED <<last_call, b_grant>>
          ELSE /\ b_pc' = "get"
               /\ last_call' = clock
               /\ b_lsleep' = Append(b_lsleep, 0)
               /\ b_grant' = Append(b_grant, clock)
               /\ UNCHANGED b_wake
    /\ UNCHANGED <<clock, interval, lock_owner, l_pc, l_wake, grant_times,
                   b_fail, b_delays, scrapeVars, collectVars, canonVars>>

\* wait(): the sleep is over, the grant is recorded and client.get is sent
BWaitWake ==
    /\ b_pc = "lsleep"
    /\ clock >= b_wake
    /\ b_pc' = "get"
    /\ last_call' = clock
    /\ b_grant' = Append(b_grant, clock)
    /\ UNCHANGED <<clock, interval, lock_owner, l_pc, l_wake, grant_times,
                   b_wake, b_fail, b_delays, b_lsleep, scrapeVars, collectVars, canonVars>>

\* client.get and raise_for_status end with outcome o: tenacity sleeps for
\* wait_exponential when it retries, else _fetch returns or raises
BGet(o) ==
    /\ b_pc = "get"
    /\ IF RetryIf(o) /\ Attempt < StopAfterAttempt
       THEN /\ b_pc' = "backoff"
            /\ b_fail' = Append(b_fail, clock)
            /\ b_delays' = Append(b_delays, WaitExponential(Attempt))
            /\ b_wake' = clock + WaitExponential(Attempt)
       ELSE /\ b_pc' = "done"
            /\ UNCHANGED <<b_fail, b_delays, b_wake>>
    /\ UNCHANGED <<clock, interval, lock_owner, last_call, l_pc, l_wake, grant_times,
                   b_lsleep, b_grant, scrapeVars, collectVars, canonVars>>

\* the backoff sleep is over: the decorated function is called again
BRetry ==
    /\ b_pc = "backoff"
    /\ clock >= b_wake
    /\ b_pc' = RetryEntry
    /\ UNCHANGED <<clock, interval, lock_owner, last_call, l_pc, l_wake, grant_times,
                   b_wake, b_fail, b_delays, b_lsleep, b_grant,
                   scrapeVars, collectVars, canonVars>>

\* a second passes while the task sleeps or its request is in flight
BTick ==
    /\ b_pc \in {"lsleep", "get", "backoff"}
    /\ clock < MaxBackoffClock
    /\ clock' = clock + 1
    /\ UNCHANGED <<interval, lock_owner, last_call, l_pc, l_wake, grant_times,
                   backoffVars, scrapeVars, collectVars, canonVars>>

\* another task of the batch is granted by the limiter during the backoff
BOtherGrant ==
    /\ b_pc = "backoff"
    /\ clock - last_call >= interval
    /\ last_call # clock
    /\ last_call' = clock
    /\ UNCHANGED <<clock, interval, lock_owner, l_pc, l_wake, grant_times,
                   backoffVars, scrapeVars, collectVars, canonVars>>

BackoffNext ==
    \/ BWait
    \/ BWaitWake
    \/ \E o \in GetOutcomes : BGet(o)
    \/ BRetry
    \/ BTick
    \/ BOtherGrant

SpecBackoff == BackoffInit /\ [][BackoffNext]_vars

(***************************************************************************)
(* Link strings and URLs.                                                  *)
(*                                                                         *)
(* A string that may name a URL (an href, a JSON string value, a URL) is   *)
(* the record of its parts:                                                *)
(*   host    scheme and authority ("" for a relative reference)            *)
(*   rooted  the path starts with "/"                                      *)
(*   segs    the path's segments, i.e. the path split at "/"               *)
(*   query   what follows the first "?" ("" when there is none)            *)
(***************************************************************************)
SiteHost == "https://www.classcentral.com"
OtherHost == "https://www.coursera.org"

Str(h, r, sg, q) == [host |-> h, rooted |-> r, segs |-> sg, query |-> q]

EmptyStr == Str("", FALSE, <<>>, "")

\* CrawlConfig.base_url
base_url == Str(SiteHost, FALSE, <<>>, "")

\* the query strings of the model that hold the text "/course/"
QueriesWithCoursePath == {"next=/course/b"}

\* "/course/" in s
HasCoursePath(s) ==
    \/ \E i \in 1..(Len(s.segs) - 1) :
          s.segs[i] = "course" /\ (i > 1 \/ s.rooted \/ s.host # "")
    \/ s.query \in QueriesWithCoursePath

\* a split that keeps the query
SplitQueryKept(s) == s

\* s.split("?")[0]
SplitQuery(s) == [s EXCEPT !.query = ""]

\* urllib.parse.urljoin(base, s), for a base with an empty path: the base
\* for an empty s, s itself when it has a scheme and host, else s resolved
\* against the base's root
UrlJoin(base, s) ==
    IF s = EmptyStr THEN base
    ELSE IF s.host # "" THEN s
    ELSE Str(base.host, s.rooted \/ s.segs # <<>>, s.segs, s.query)

\* the canonicalization: urljoin(base_url, s.split("?")[0])
Canonical(s) == UrlJoin(base_url, SplitQuery(s))

\* f"/course/{v}"
SlugPath(v) ==
    Str("", TRUE,
        <<"course">> \o (IF v.host # "" THEN <<v.host>> \o v.segs
                         ELSE IF v.rooted \/ v.segs = <<>> THEN <<"">> \o v.segs
                         ELSE v.segs),
        v.query)

\* the hrefs a rendered page of the model may hold
Hrefs ==
    { Str("", TRUE, <<"course", "a">>, "utm=1"),
      Str(SiteHost, TRUE, <<"course", "a">>, ""),
      Str("", TRUE, <<"course", "b">>, ""),
      Str(OtherHost, TRUE, <<"course", "b">>, ""),
      Str("", TRUE, <<"login">>, "next=/course/b"),
      Str("", TRUE, <<"subject", "cs">>, "") }

\* the rendered markups of the model: the hrefs of their <a> elements
Markups == {h \in SUBSET Hrefs : Cardinality(h) <= MaxLinksPerPage}

\* soup.select("a[href*='/course/']")
SelectCourseAnchors(html) == {h \in html : HasCoursePath(h)}

\* _course_links_from_html(html, base_url)
CourseLinksFromHtml(html) == {Canonical(h) : h \in SelectCourseAnchors(html)}

(***************************************************************************)
(* The canonicalization on its own: a link is drawn, canonicalized, and    *)
(* the result canonicalized again, beside a link that differs from it in   *)
(* the query string only.                                                  *)
(***************************************************************************)

\* the query strings of the model ("": the link has none)
Queries == {"", "utm=1", "next=/course/b"}

\* the link strings of the model: relative or absolute, with or without a
\* path, with or without a query string
LinkStrings ==
    { Str("", r, sg, q) :
        r \in BOOLEAN, sg \in {<<>>, <<"course", "a">>, <<"login">>}, q \in Queries }
    \cup
    { Str(h, sg # <<>>, sg, q) :
        h \in {SiteHost, OtherHost},
        sg \in {<<>>, <<"course", "a">>, <<"login">>}, q \in Queries }

CanonInit ==
    /\ cn_pc = "input"
    /\ link_a \in LinkStrings
    /\ \E q \in Queries : link_b = [link_a EXCEPT !.query = q]
    /\ canon_a = <<>>
    /\ canon_b = <<>>
    /\ canon_aa = <<>>
    /\ lock_owner = 0
    /\ LimiterIdle
    /\ ScrapeIdle
    /\ CollectIdle
    /\ BackoffIdle

\* both links are canonicalized as _course_links_from_html and walk() do
CanonOnce ==
    /\ cn_pc = "input"
    /\ canon_a' = Canonical(link_a)
    /\ canon_b' = Canonical(link_b)
    /\ cn_pc' = "once"
    /\ UNCHANGED <<link_a, link_b, canon_aa, lock_owner, limiterVars, scrapeVars, collectVars,
                   backoffVars>>

\* the canonical URL is canonicalized again
CanonTwice ==
    /\ cn_pc = "once"
    /\ canon_aa' = Canonical(canon_a)
    /\ cn_pc' = "twice"
    /\ UNCHANGED <<link_a, link_b, canon_a, canon_b, lock_owner, limiterVars, scrapeVars, collectVars,
                   backoffVars>>

CanonNext == CanonOnce \/ CanonTwice

SpecCanon == CanonInit /\ [][CanonNext]_vars

(***************************************************************************)
(* JSON payloads: a node is a dict, a list, a string or a number.  The     *)
(* items of a dict are its (key, value) pairs, those of a list its         *)
(* elements under the key "".                                              *)
(***************************************************************************)
JStr(v) == [tag |-> "str", val |-> v, items |-> <<>>]
JNum == [tag |-> "num", val |-> EmptyStr, items |-> <<>>]
JList(xs) == [tag |-> "list", val |-> EmptyStr, items |-> xs]
JDict(kvs) == [tag |-> "dict", val |-> EmptyStr, items |-> kvs]
KV(k, v) == [k |-> k, v |-> v]

\* k.lower(), for the keys of the model
Lower(k) == IF k = "Slug" THEN "slug" ELSE k

\* urljoin(self.config.base_url, f"/course/{v}")
SlugLink(v) == UrlJoin(base_url, SlugPath(v))

\* what walk() adds to `found` for the entry (k, v) of a dict
EntryLinks(k, v) ==
    (IF v.tag = "str" /\ HasCoursePath(v.val) THEN {Canonical(v.val)} ELSE {})
    \cup
    (IF Lower(k) \in {"slug", "course_slug"} /\ v.tag = "str"
     THEN {SlugLink(v.val)} ELSE {})

\* the link strings walk() reads for the entry (k, v), before canonicalizing
EntryRaw(k, v) ==
    (IF v.tag = "str" /\ HasCoursePath(v.val) THEN {v.val} ELSE {})
    \cup
    (IF Lower(k) \in {"slug", "course_slug"} /\ v.tag = "str"
     THEN {SlugPath(v.val)} ELSE {})

\* _extract_course_links_from_json: walk(node), and walk over node.items
\* from its i-th item on
RECURSIVE Walk(_), WalkItems(_, _, _)
Walk(node) ==
    IF node.tag \in {"dict", "list"} THEN WalkItems(node.tag, node.items, 1) ELSE {}

WalkItems(tag, items, i) ==
    IF i > Len(items) THEN {}
    ELSE (IF tag = "dict" THEN EntryLinks(items[i].k, items[i].v) ELSE {})
         \cup Walk(items[i].v)
         \cup WalkItems(tag, items, i + 1)

ExtractCourseLinksFromJson(payload) == Walk(payload)

\* the same traversal, collecting the strings read instead of the URLs made
RECURSIVE WalkRaw(_), WalkRawItems(_, _, _)
WalkRaw(node) ==
    IF node.tag \in {"dict", "list"} THEN WalkRawItems(node.tag, node.items, 1) ELSE {}

WalkRawItems(tag, items, i) ==
    IF i > Len(items) THEN {}
    ELSE (IF tag = "dict" THEN EntryRaw(items[i].k, items[i].v) ELSE {})
         \cup WalkRaw(items[i].v)
         \cup WalkRawItems(tag, items, i + 1)

\* the parsed bodies an endpoint of the model may answer with
Payloads ==
    { JDict(<<>>),
      JDict(<<KV("results", JList(<<KV("", JDict(<<KV("url",
            JStr(Str("", TRUE, <<"course", "a">>, "utm=1")))>>))>>))>>),
      JDict(<<KV("results", JList(<<KV("", JDict(<<KV("Slug",
            JStr(Str("", FALSE, <<"b">>, ""))), KV("id", JNum)>>))>>))>>),
      JDict(<<KV("slug", JStr(Str("", FALSE, <<"a">>, "utm=1")))>>),
      JDict(<<KV("course", JDict(<<KV("link",
            JStr(Str(OtherHost, TRUE, <<"course", "b">>, "")))>>))>>),
      JList(<<KV("", JStr(Str("", TRUE, <<"course", "a">>, "")))>>) }

(***************************************************************************)
(* _discover_network_api, _collect_listing_urls_dom,                       *)
(* _collect_listing_urls_api, collect_course_urls                          *)
(*                                                                         *)
(* Positions of collect_course_urls:                                       *)
(*   "discover"   in _discover_network_api                                 *)
(*   "dom"        in _collect_listing_urls_dom                             *)
(*   "api"        in _collect_listing_urls_api                             *)
(*   "collected"  returned: the set is handed to scrape_courses            *)
(*   "failed"     left by an exception                                     *)
(***************************************************************************)

\* `stagnant and p > 5`: the grace window of the DOM walker
GraceWindow == 5

\* the background responses the listing page of the model may cause; id
\* stands for the URL (and its place in the sorted order), page for the
\* value of its page parameter (0: it carries none)
Responses ==
    { [id |-> 1, resource_type |-> "xhr", on_site |-> TRUE, keyword |-> TRUE, page |-> 0],
      [id |-> 2, resource_type |-> "fetch", on_site |-> TRUE, keyword |-> TRUE, page |-> 2],
      [id |-> 3, resource_type |-> "image", on_site |-> TRUE, keyword |-> TRUE, page |-> 0],
      [id |-> 4, resource_type |-> "xhr", on_site |-> FALSE, keyword |-> TRUE, page |-> 0] }

\* on_response: the responses whose URL is appended to `found`
OnResponse(resp) ==
    /\ resp.resource_type \in {"xhr", "fetch"}
    /\ resp.on_site
    /\ resp.keyword

\* sorted(set(found))
RECURSIVE Sorted(_)
Sorted(S) ==
    IF S = {} THEN <<>>
    ELSE LET m == CHOOSE x \in S : \A y \in S : x.id <= y.id
         IN <<m>> \o Sorted(S \ {m})

\* what one request of the API walker can end in: _fetch raises after its
\* retries, response.json() raises json.JSONDecodeError (the body is text
\* that is not JSON), response.json() raises UnicodeDecodeError (the body
\* is bytes that are no text in any Unicode encoding), or the body parses
\* to a payload
ApiResponses ==
    { [kind |-> "fetch_failed", payload |-> JNum],
      [kind |-> "not_json", payload |-> JNum],
      [kind |-> "undecodable", payload |-> JNum] }
    \cup { [kind |-> "json", payload |-> p] : p \in Payloads }

\* `except json.JSONDecodeError`
JsonErrorCaught(kind) == kind = "not_json"

NoPage == [p |-> 0, empty |-> FALSE, fresh |-> FALSE]
NoRequest == [ep |-> 0, page |-> 0, kind |-> "none", links |-> FALSE, fresh |-> FALSE]

\* collect_course_urls at position pc, nothing collected yet, with the
\* endpoints eps and max_listing_pages = mx
CollectStart(pc, eps, mx) ==
    /\ max_listing_pages = mx
    /\ c_pc = pc
    /\ endpoints = eps
    /\ urls = {}
    /\ dom_p = 0
    /\ dom_req = <<>>
    /\ dom_last = NoPage
    /\ dom_raw = {}
    /\ api_urls = {}
    /\ ep_idx = 1
    /\ api_page = 1
    /\ api_last = NoRequest
    /\ api_raw = {}
    /\ seen_urls = {}
    /\ lock_owner = 0
    /\ LimiterIdle
    /\ ScrapeIdle
    /\ CanonIdle
    /\ BackoffIdle

\* run() calls collect_course_urls on a new crawler
CollectInit == \E mx \in 1..MaxCollectPages : CollectStart("discover", <<>>, mx)

\* _collect_listing_urls_dom is called
DomInit == \E mx \in 1..MaxListingPages : CollectStart("dom", <<>>, mx)

\* _collect_listing_urls_api is called with the endpoints of a discovery
ApiInit ==
    \E mx \in 1..MaxListingPages, observed \in SUBSET Responses :
        CollectStart("api", Sorted({r \in observed : OnResponse(r)}), mx)

\* _discover_network_api: the listing is rendered and scrolled, the
\* observer keeps the responses it accepts, and the sorted set is returned
Discover(observed) ==
    /\ c_pc = "discover"
    /\ endpoints' = Sorted({r \in observed : OnResponse(r)})
    /\ c_pc' = "dom"
    /\ UNCHANGED <<max_listing_pages, urls, dom_p, dom_req, dom_last, dom_raw, api_urls, ep_idx,
                   api_page, api_last, api_raw, seen_urls,
                   lock_owner, limiterVars, scrapeVars, canonVars, backoffVars>>

\* _collect_listing_urls_dom up to its pagination loop: the listing is
\* loaded, the load-more / scroll loop runs its 30 rounds, and the links of
\* the rendered markup are extracted
DomListing(html) ==
    /\ c_pc = "dom"
    /\ dom_p = 0
    /\ dom_p' = 1
    /\ urls' = CourseLinksFromHtml(html)
    /\ dom_raw' = SelectCourseAnchors(html)
    /\ c_pc' = IF 2 <= max_listing_pages THEN "dom" ELSE "api"
    /\ UNCHANGED <<max_listing_pages, endpoints, dom_req, dom_last, api_urls, ep_idx,
                   api_page, api_last, api_raw, seen_urls,
                   lock_owner, limiterVars, scrapeVars, canonVars, backoffVars>>

\* a stagnation stop without a grace window
StagnantStopNoGrace(stagnant, p) == stagnant

\* `if stagnant and p > 5: break`
StagnantStop(stagnant, p) == stagnant /\ p > GraceWindow

\* `if not page_urls: break`
EmptyStop(page_urls) == page_urls = {}

\* one round of `for p in range(2, max_listing_pages + 1)`: ?page=p is
\* loaded and its links extracted; the walk ends on a page without links,
\* on a stagnant page past the grace window, or with the last page
DomPage(html) ==
    /\ c_pc = "dom"
    /\ dom_p >= 1
    /\ LET p == dom_p + 1
           page_urls == CourseLinksFromHtml(html)
           merged == urls \cup page_urls
           stagnant == Cardinality(merged) = Cardinality(urls)
       IN /\ dom_p' = p
          /\ dom_req' = Append(dom_req, p)
          /\ dom_last' = [p |-> p, empty |-> page_urls = {},
                          fresh |-> ~(page_urls \subseteq urls)]
          /\ IF EmptyStop(page_urls)
             THEN /\ c_pc' = "api"
                  /\ UNCHANGED <<urls, dom_raw>>
             ELSE /\ urls' = merged
                  /\ dom_raw' = dom_raw \cup SelectCourseAnchors(html)
                  /\ c_pc' = IF StagnantStop(stagnant, p) \/ p = max_listing_pages
                             THEN "api" ELSE "dom"
    /\ UNCHANGED <<max_listing_pages, endpoints, api_urls, ep_idx, api_page, api_last, api_raw,
                   seen_urls, lock_owner, limiterVars, scrapeVars, canonVars, backoffVars>>

\* `if not links: break`
ApiStop(links, known) == links = {}

\* one round of `for page in range(1, max_listing_pages + 1)` for the
\* endpoint endpoints[ep_idx]: page api_page is requested whatever page
\* parameter the endpoint carried; a failed fetch, a body that is not JSON
\* or a payload without links ends the endpoint, as does the last page; an
\* error of response.json() that the handler does not catch leaves the
\* walker, collect_course_urls and run()
ApiPage(resp) ==
    /\ c_pc = "api"
    /\ ep_idx <= Len(endpoints)
    /\ LET links == IF resp.kind = "json"
                    THEN ExtractCourseLinksFromJson(resp.payload) ELSE {}
           stop == resp.kind # "json" \/ ApiStop(links, api_urls)
           escapes == resp.kind \in {"not_json", "undecodable"}
                         /\ ~JsonErrorCaught(resp.kind)
       IN /\ api_last' = [ep |-> endpoints[ep_idx].id, page |-> api_page,
                          kind |-> resp.kind, links |-> links # {},
                          fresh |-> ~(links \subseteq api_urls)]
          /\ IF stop
             THEN UNCHANGED <<api_urls, api_raw>>
             ELSE /\ api_urls' = api_urls \cup links
                  /\ api_raw' = api_raw \cup WalkRaw(resp.payload)
          /\ IF escapes
             THEN /\ c_pc' = "failed"
                  /\ UNCHANGED <<ep_idx, api_page>>
             ELSE /\ UNCHANGED c_pc
                  /\ IF stop \/ api_page = max_listing_pages
                     THEN /\ ep_idx' = ep_idx + 1
                          /\ api_page' = 1
                     ELSE /\ api_page' = api_page + 1
                          /\ UNCHANGED ep_idx
    /\ UNCHANGED <<max_listing_pages, endpoints, urls, dom_p, dom_req, dom_last, dom_raw,
                   seen_urls, lock_owner, limiterVars, scrapeVars, canonVars, backoffVars>>

\* a reconciliation that keeps the API walker's set only
ReconcileApiOnly(dom, api) == api

\* urls.update(api_urls)
Reconcile(dom, api) == dom \cup api

\* every endpoint is walked: urls.update(api_urls), self.seen_urls = urls,
\* and the set is returned to run(), which hands it to scrape_courses
CollectDone ==
    /\ c_pc = "api"
    /\ ep_idx > Len(endpoints)
    /\ urls' = Reconcile(urls, api_urls)
    /\ seen_urls' = Reconcile(urls, api_urls)
    /\ c_pc' = "collected"
    /\ UNCHANGED <<max_listing_pages, endpoints, dom_p, dom_req, dom_last, dom_raw, api_urls,
                   ep_idx, api_page, api_last, api_raw,
                   lock_owner, limiterVars, scrapeVars, canonVars, backoffVars>>

CollectNext ==
    \/ \E observed \in SUBSET Responses : Discover(observed)
    \/ \E html \in Markups : DomListing(html)
    \/ \E html \in Markups : DomPage(html)
    \/ \E resp \in ApiResponses : ApiPage(resp)
    \/ CollectDone

SpecCollect == CollectInit /\ [][CollectNext]_vars

\* the DOM walker alone
DomNext ==
    \/ \E html \in Markups : DomListing(html)
    \/ \E html \in Markups : DomPage(html)

SpecDom == DomInit /\ [][DomNext]_vars

\* the API walker alone, up to the return of collect_course_urls
ApiNext ==
    \/ \E resp \in ApiResponses : ApiPage(resp)
    \/ CollectDone

SpecApi == ApiInit /\ [][ApiNext]_vars

(***************************************************************************)
(* CourseCrawler.run: collect_course_urls, then scrape_courses on the      *)
(* sorted set.  Task t of the batch fetches the t-th URL of the sorted     *)
(* list.                                                                   *)
(***************************************************************************)

\* the URLs of the model, in the order of their strings
UrlOrder ==
    << Str(SiteHost, TRUE, <<"course", "a">>, ""),
       Str(SiteHost, TRUE, <<"course", "a">>, "utm=1"),
       Str(SiteHost, TRUE, <<"course", "b">>, ""),
       Str(SiteHost, TRUE, <<"login">>, ""),
       Str(OtherHost, TRUE, <<"course", "b">>, "") >>

\* sorted(urls)
SortedUrls(S) == SelectSeq(UrlOrder, LAMBDA u : u \in S)

\* the URL that task t of the batch fetches
UrlOf(t) == SortedUrls(seen_urls)[t]

\* the listing of a small site: its background responses, the markups of
\* its pages and the answers of its endpoint
RunObserved == SUBSET {r \in Responses : r.id \in {1, 3}}
RunMarkups ==
    { {},
      {Str("", TRUE, <<"course", "a">>, "utm=1")},
      {Str("", TRUE, <<"course", "b">>, "")} }
RunApiResponses ==
    {r \in ApiResponses :
        \/ r.kind \in {"fetch_failed", "not_json"}
        \/ r.kind = "json" /\ ExtractCourseLinksFromJson(r.payload)
                                 = {Str(SiteHost, TRUE, <<"course", "a">>, "")}}

\* run() is called on a new crawler
RunInit == CollectInit

\* a run that starts the detail fetch while the API walk is still going on
UrlsReadyEarly == c_pc \in {"api", "collected"}

\* urls = await self.collect_course_urls(context) has returned
UrlsReady == c_pc = "collected"

\* records = await self.scrape_courses(sorted(urls))
RunScrape(c) ==
    /\ UrlsReady
    /\ m_pc = "idle"
    /\ LET n == Len(SortedUrls(seen_urls))
       IN /\ concurrency' = c
          /\ max_retries' = DefaultMaxRetries
          /\ sem' = c
          /\ s_pc' = [t \in 1..n |-> "sem"]
          /\ outcomes' = [t \in 1..n |-> <<>>]
          /\ grants' = [t \in 1..n |-> 0]
          /\ fetched' = [t \in 1..n |-> "pending"]
          /\ extract_raised' = [t \in 1..n |-> FALSE]
          /\ result' = [t \in 1..n |-> "pending"]
          /\ m_pc' = "gather"
          /\ returned' = <<>>
    /\ UNCHANGED <<lock_owner, limiterVars, collectVars, canonVars, backoffVars>>

RunNext ==
    \/ \E observed \in RunObserved : Discover(observed)
    \/ \E html \in RunMarkups : DomListing(html)
    \/ \E html \in RunMarkups : DomPage(html)
    \/ \E resp \in RunApiResponses : ApiPage(resp)
    \/ CollectDone
    \/ \E c \in 1..MaxConcurrency : RunScrape(c)
    \/ ScrapeNext

SpecRun == RunInit /\ [][RunNext]_vars


(***************************************************************************)
(* C2: during scrape_courses with concurrency limit N, the number of URLs  *)
(* whose _scrape_single_course call has started and not returned (waiting  *)
(* on the limiter, in an HTTP attempt, in backoff, in extraction) is at    *)
(* most N in every reachable state, however many URLs there are.           *)
(***************************************************************************)
InFlight == {t \in Tasks : s_pc[t] \in {"limiter", "inlock", "get", "backoff"}}

C2_InFlightBounded == Cardinality(InFlight) <= concurrency

\* the pool is full and a further URL waits for a permit
C2_Witness ==
    /\ Cardinality(InFlight) = concurrency
    /\ \E t \in Tasks : s_pc[t] = "sem"
    /\ \E t \in Tasks : s_pc[t] = "done"

(***************************************************************************)
(* C3: of M URLs of which K fail terminally (the fetch ends in an error,   *)
(* or parse_course raises), scrape_courses returns exactly M-K records,    *)
(* one for each URL that did not fail, and never raises; a URL yields a    *)
(* record exactly when its own fetch and extraction succeeded.             *)
(***************************************************************************)
FailsTerminally(t) ==
    \/ outcomes[t] # <<>> /\ outcomes[t][Len(outcomes[t])] # "ok"
    \/ extract_raised[t]

C3_PartialFailureIsolation ==
    /\ m_pc # "raised"
    /\ \A t \in Tasks : result[t] # "raised"
    /\ \A t \in Tasks : s_pc[t] = "done" =>
          (result[t] = "record" <=> ~FailsTerminally(t))
    /\ m_pc = "returned" =>
          /\ Len(returned) = Len(s_pc) - Cardinality({t \in Tasks : FailsTerminally(t)})
          /\ \A t \in Tasks :
                Cardinality({i \in DOMAIN returned : returned[i] = t})
                   = (IF FailsTerminally(t) THEN 0 ELSE 1)

\* three URLs: one exhausts its retries, one fails in extraction, one yields
\* the only record
C3_Witness ==
    /\ m_pc = "returned"
    /\ Len(s_pc) = 3
    /\ Len(returned) = 1
    /\ \E t \in Tasks : Len(outcomes[t]) = StopAfterAttempt /\ fetched[t] = "raised"
    /\ \E t \in Tasks : extract_raised[t]

(***************************************************************************)
(* C4: a URL whose every HTTP attempt raises a transient error is tried    *)
(* exactly CrawlConfig.max_retries times, and then _fetch raises, for      *)
(* every positive max_retries.                                             *)
(***************************************************************************)
AllTransient(t) ==
    /\ outcomes[t] # <<>>
    /\ \A i \in DOMAIN outcomes[t] : outcomes[t][i] = "http_error"

C4_ExactlyMaxRetriesAttempts ==
    \A t \in Tasks :
        AllTransient(t) =>
            /\ Len(outcomes[t]) <= max_retries
            /\ fetched[t] = "raised" <=>
                  (Len(outcomes[t]) = max_retries /\ s_pc[t] = "done")

(***************************************************************************)
(* C5: when the first two attempts raise a transient error and the third   *)
(* succeeds (the attempt ceiling being at least 3), _fetch returns the     *)
(* response of the third attempt, raises nothing, and makes no fourth      *)
(* attempt.                                                                *)
(***************************************************************************)
FailsTwiceThenSucceeds(t) ==
    /\ Len(outcomes[t]) >= 3
    /\ outcomes[t][1] = "http_error"
    /\ outcomes[t][2] = "http_error"
    /\ outcomes[t][3] = "ok"

C5_ThirdAttemptReturned ==
    /\ StopAfterAttempt >= 3
    /\ \A t \in Tasks :
          FailsTwiceThenSucceeds(t) =>
              /\ Len(outcomes[t]) = 3
              /\ grants[t] = 3
              /\ fetched[t] = "response"
              /\ s_pc[t] = "done"

C5_Witness ==
    \E t \in Tasks :
        /\ FailsTwiceThenSucceeds(t)
        /\ s_pc[t] = "done"
        /\ result[t] = "record"

(***************************************************************************)
(* C6: every GET of _fetch, first attempt or retry, follows a rate-limiter *)
(* grant of its own: a fetch has obtained as many grants as it has made    *)
(* GET attempts (one more while a GET is in flight), and after a failed    *)
(* attempt no GET is sent before the next grant.                           *)
(***************************************************************************)
C6_GrantBeforeEveryGet ==
    \A t \in Tasks :
        grants[t] = Len(outcomes[t]) + (IF s_pc[t] = "get" THEN 1 ELSE 0)

\* the last retry's GET is in flight on its own, fourth, grant
C6_Witness ==
    \E t \in Tasks :
        /\ s_pc[t] = "get"
        /\ Len(outcomes[t]) = StopAfterAttempt - 1
        /\ grants[t] = StopAfterAttempt

(***************************************************************************)
(* C7: for each endpoint the API walker stops at the first page that       *)
(* yields no link that is new: after such a page K it requests no page     *)
(* K+1 of that endpoint, also when page K held links that were all         *)
(* already collected.                                                      *)
(***************************************************************************)
C7_StopsAtFirstPageWithoutNewLink ==
    [][(api_last'.ep = api_last.ep /\ api_last'.page = api_last.page + 1)
          => api_last.fresh]_vars

(***************************************************************************)
(* C8: the DOM walker requests ?page=2, 3, ... in increasing order, never  *)
(* past max_listing_pages, and after each page p evaluates two stop        *)
(* conditions: p yields no detail link; p > 5 and p contributed no URL not *)
(* already known.  It stops exactly when one of them holds (or p is the    *)
(* last page), so a non-empty page p <= 5 that brings nothing new does not *)
(* stop it, and it requests no page after the one it stopped on.           *)
(***************************************************************************)
DomStopCondition(last) ==
    \/ last.empty
    \/ last.p > GraceWindow /\ ~last.fresh

C8_State ==
    /\ dom_req = [i \in 1..Len(dom_req) |-> i + 1]
    /\ \A i \in DOMAIN dom_req : dom_req[i] <= max_listing_pages
    /\ dom_req # <<>> =>
          /\ dom_last.p = dom_req[Len(dom_req)]
          /\ c_pc = "dom" =>
                ~DomStopCondition(dom_last) /\ dom_last.p < max_listing_pages
          /\ c_pc # "dom" =>
                DomStopCondition(dom_last) \/ dom_last.p = max_listing_pages

C8_Step ==
    dom_req' # dom_req =>
        /\ c_pc = "dom"
        /\ dom_req # <<>> => ~DomStopCondition(dom_last)
        /\ dom_req' = Append(dom_req, Len(dom_req) + 2)

C8_DomPagination == []C8_State /\ [][C8_Step]_vars

\* every page up to the grace window's last repeated the one known URL, and
\* the walk went on until page 6 repeated it too
C8_Witness ==
    /\ c_pc = "api"
    /\ dom_last.p = GraceWindow + 1
    /\ dom_last.p < max_listing_pages
    /\ ~dom_last.empty
    /\ ~dom_last.fresh
    /\ Cardinality(urls) = 1
    /\ Cardinality(dom_raw) = 2

(***************************************************************************)
(* C9: for any DOM-derived links A and API-derived links B, the set        *)
(* collect_course_urls returns holds the canonical URL of every link of A  *)
(* and B, nothing else, and no two entries that are canonically equal.     *)
(***************************************************************************)
C9_TrueUnionWithoutDuplicates ==
    c_pc = "collected" =>
        /\ seen_urls = {Canonical(x) : x \in dom_raw \cup api_raw}
        /\ \A e1, e2 \in seen_urls : Canonical(e1) = Canonical(e2) => e1 = e2

(***************************************************************************)
(* C10: the set handed to scrape_courses holds no URL outside the target   *)
(* site's course-detail pattern: every element has the site's host and a   *)
(* path under /course/, whatever the markup and the JSON contained.        *)
(***************************************************************************)
IsCourseDetailUrl(u) ==
    /\ u.host = SiteHost
    /\ Len(u.segs) >= 2
    /\ u.segs[1] = "course"

C10_OnlyCourseDetailUrls ==
    c_pc = "collected" => \A u \in seen_urls : IsCourseDetailUrl(u)

NoEndpoint == c_pc \in {"dom", "api", "collected"} /\ endpoints = <<>>

C12_NoEndpointDomOnly ==
    NoEndpoint =>
        /\ api_last = NoRequest
        /\ api_urls = {}
        /\ c_pc = "collected" => seen_urls = {Canonical(h) : h \in dom_raw}
        /\ m_pc # "idle" => Len(s_pc) = Cardinality(seen_urls)
        /\ m_pc # "raised"
        /\ m_pc = "returned" =>
              Len(returned) = Cardinality(seen_urls)
                                - Cardinality({t \in Tasks : FailsTerminally(t)})

\* no endpoint; the listing and ?page=2 hold one link each and ?page=3
\* none: 2 URLs, of which one fails terminally, so 1 record
C12_Witness ==
    /\ NoEndpoint
    /\ m_pc = "returned"
    /\ dom_last.p = 3
    /\ dom_last.empty
    /\ Cardinality(seen_urls) = 2
    /\ Cardinality({t \in Tasks : FailsTerminally(t)}) = 1
    /\ Len(returned) = 1

(***************************************************************************)
(* C13: in the API walker a fetch that fails outright, or a body that      *)
(* cannot be parsed as structured data, abandons only the endpoint being   *)
(* walked: the links collected so far are kept, the walker goes on to the  *)
(* next endpoint, and it never raises.                                     *)
(***************************************************************************)
ApiRequestFailed(last) == last.kind \in {"fetch_failed", "not_json", "undecodable"}

C13_Step ==
    (api_last' # api_last /\ ApiRequestFailed(api_last')) =>
        /\ api_urls' = api_urls
        /\ ep_idx' = ep_idx + 1
        /\ c_pc' = "api"

C13_FailureAbandonsEndpointOnly == [](c_pc # "failed") /\ [][C13_Step]_vars

(***************************************************************************)
(* C14: _fetch retries only after an attempt that ended in the transient   *)
(* class (httpx.HTTPError: a network failure or an error status); any      *)
(* other error ends the fetch with that attempt; and a failure to parse or *)
(* decode a fetched body (parse_course on a detail page, response.json()   *)
(* on an endpoint's answer) never causes another attempt for that URL.     *)
(***************************************************************************)
LastOutcome(t) == outcomes[t][Len(outcomes[t])]

C14_State ==
    \A t \in Tasks :
        /\ \A i \in 1..(Len(outcomes[t]) - 1) : outcomes[t][i] = "http_error"
        /\ (outcomes[t] # <<>> /\ LastOutcome(t) = "other_error") =>
              s_pc[t] = "done" /\ fetched[t] = "raised"
        /\ extract_raised[t] =>
              s_pc[t] = "done" /\ LastOutcome(t) = "ok"
        /\ s_pc[t] = "done" => grants[t] = Len(outcomes[t])

C14_Step ==
    /\ \A t \in Tasks : s_pc[t] = "done" =>
          outcomes'[t] = outcomes[t] /\ grants'[t] = grants[t]
    /\ (api_last.kind \in {"not_json", "undecodable"} /\ api_last' # api_last) =>
          api_last'.ep # api_last.ep

C14_RetryOnlyTransient == []C14_State /\ [][C14_Step]_vars

\* an endpoint answers with a body that is not JSON and the walker goes
\* on; one detail URL fails on a non-transient error in its second
\* attempt, the other is fetched at once and fails in parse_course
C14_Witness ==
    /\ m_pc = "returned"
    /\ api_last.kind = "not_json"
    /\ \E t \in Tasks : outcomes[t] = <<"http_error", "other_error">>
    /\ \E t \in Tasks : outcomes[t] = <<"ok">> /\ extract_raised[t]

(***************************************************************************)
(* C15: the phases of a run are strictly sequential.  Discovery ends       *)
(* before the DOM walk starts, the DOM walk ends before the API walk       *)
(* starts, the API walk requests exactly the endpoints discovery returned, *)
(* in their order, and no detail fetch starts before the reconciled set    *)
(* is complete; no listing step overlaps another phase or a detail fetch.  *)
(***************************************************************************)
C15_State ==
    /\ c_pc = "discover" => dom_p = 0 /\ urls = {} /\ api_last = NoRequest
    /\ c_pc = "dom" => api_last = NoRequest /\ api_urls = {}
    /\ c_pc \in {"discover", "dom", "api"} => m_pc = "idle" /\ seen_urls = {}
    /\ m_pc # "idle" => c_pc = "collected" /\ seen_urls = urls
    /\ c_pc = "collected" => ep_idx = Len(endpoints) + 1
    /\ api_last # NoRequest => \E i \in DOMAIN endpoints : endpoints[i].id = api_last.ep

C15_Step ==
    /\ endpoints' # endpoints => c_pc = "discover" /\ c_pc' = "dom"
    /\ <<dom_p, dom_req, dom_last, dom_raw>>' # <<dom_p, dom_req, dom_last, dom_raw>> =>
          c_pc = "dom" /\ UNCHANGED <<endpoints, api_last, api_urls, ep_idx>>
    /\ <<api_last, api_urls, ep_idx, api_page>>' # <<api_last, api_urls, ep_idx, api_page>> =>
          /\ c_pc = "api"
          /\ dom_p >= 1
          /\ api_last'.ep = endpoints[ep_idx].id
          /\ ep_idx' \in {ep_idx, ep_idx + 1}
          /\ UNCHANGED <<endpoints, urls, dom_p>>
    /\ collectVars' # collectVars => m_pc = "idle" /\ UNCHANGED scrapeVars
    /\ scrapeVars' # scrapeVars => c_pc = "collected" /\ UNCHANGED collectVars

C15_PhasesSequential == []C15_State /\ [][C15_Step]_vars

\* a run through all four phases: one endpoint discovered and requested,
\* two pages rendered, two detail URLs fetched
C15_Witness ==
    /\ m_pc = "returned"
    /\ Len(endpoints) = 1
    /\ api_last.ep = endpoints[1].id
    /\ dom_p >= 2
    /\ Len(s_pc) = 2
    /\ \A t \in Tasks : grants[t] >= 1

(***************************************************************************)
(* C16: the pages the API walker requests of one endpoint are strictly     *)
(* increasing and never exceed max_listing_pages, and they start at the    *)
(* next unseen page: at 1 for an endpoint URL without a page parameter,    *)
(* and after the page value of the endpoint URL when it carries one.       *)
(***************************************************************************)
C16_Step ==
    api_last' # api_last =>
        /\ api_last'.page <= max_listing_pages
        /\ IF api_last'.ep = api_last.ep
           THEN api_last'.page > api_last.page
           ELSE api_last'.page = endpoints[ep_idx].page + 1

C16_PagesStartAtNextUnseen == [][C16_Step]_vars

(***************************************************************************)
(* C17: if every HTTP attempt eventually returns or raises, scrape_courses *)
(* eventually returns.  No URL is attempted more than 4 times, so a batch  *)
(* of M URLs ends after between M and 4*M attempts; no fetch retries for   *)
(* ever; and every task that waits for the semaphore or for the limiter    *)
(* is eventually granted.                                                  *)
(***************************************************************************)
RECURSIVE Attempts(_)
Attempts(t) == IF t = 0 THEN 0 ELSE Len(outcomes[t]) + Attempts(t - 1)

At(t, pc) == t \in Tasks /\ s_pc[t] = pc

C17_Bounded ==
    /\ \A t \in Tasks : Len(outcomes[t]) <= StopAfterAttempt
    /\ m_pc = "returned" =>
          /\ Len(s_pc) <= Attempts(Len(s_pc))
          /\ Attempts(Len(s_pc)) <= StopAfterAttempt * Len(s_pc)

C17_Terminates ==
    /\ []C17_Bounded
    /\ <>(m_pc = "returned")
    /\ \A t \in 1..MaxLiveUrls :
          /\ At(t, "sem") ~> At(t, "limiter")
          /\ At(t, "limiter") ~> At(t, "inlock")
          /\ At(t, "backoff") ~> At(t, "done")

\* two URLs under one permit, so one waits for the other: one exhausts
\* its four attempts, one succeeds at the third
C17_Witness ==
    /\ m_pc = "returned"
    /\ Len(s_pc) = 2
    /\ concurrency = 1
    /\ \E t \in Tasks : Len(outcomes[t]) = StopAfterAttempt /\ fetched[t] = "raised"
    /\ \E t \in Tasks : Len(outcomes[t]) = 3 /\ fetched[t] = "response"

(***************************************************************************)
(* C18: the backoff delay before retry k (k = 1, 2, 3) is                  *)
(* min(8, max(1, 2^(k-1))) seconds, i.e. 1, 2 and 4: the delays never      *)
(* decrease and stay between the floor 1 and the ceiling 8; and the delay  *)
(* is paid in addition to the rate-limiter wait of the retry: the retry is *)
(* sent no sooner than the failure plus the delay plus what wait() then    *)
(* sleeps.                                                                 *)
(***************************************************************************)
C18_BackoffDelays ==
    /\ Len(b_delays) <= 3
    /\ \A k \in DOMAIN b_delays :
          /\ b_delays[k] = <<1, 2, 4>>[k]
          /\ b_delays[k] = Min2(8, Max2(1, 2 ^ (k - 1)))
          /\ 1 <= b_delays[k] /\ b_delays[k] <= 8
          /\ k > 1 => b_delays[k - 1] <= b_delays[k]
          /\ (k + 1) \in DOMAIN b_grant =>
                b_grant[k + 1] >= b_fail[k] + b_delays[k] + b_lsleep[k + 1]

\* all three retries are made, and before one of them wait() sleeps after
\* the backoff, another task having just been granted
C18_Witness ==
    /\ b_pc = "done"
    /\ b_delays = <<1, 2, 4>>
    /\ Len(b_grant) = 4
    /\ \E k \in 1..3 : b_lsleep[k + 1] > 0

(***************************************************************************)
(* C19: whatever order the concurrent detail fetches complete in, the list *)
(* scrape_courses returns keeps the relative order of its input URLs; as   *)
(* run() passes the URLs sorted, the records are sorted by URL.            *)
(***************************************************************************)
UrlRank(u) == CHOOSE k \in DOMAIN UrlOrder : UrlOrder[k] = u

C19_RecordsInInputOrder ==
    m_pc = "returned" =>
        \A i, j \in DOMAIN returned :
            i < j => /\ returned[i] < returned[j]
                     /\ UrlRank(UrlOf(returned[i])) < UrlRank(UrlOf(returned[j]))

\* two URLs fetched side by side, the first succeeding only at its third
\* attempt and the second at its first: the records are in the input's order
C19_Witness ==
    /\ m_pc = "returned"
    /\ concurrency = 2
    /\ Len(returned) = 2
    /\ Len(outcomes[1]) = 3
    /\ Len(outcomes[2]) = 1
    /\ UrlOf(returned[1]) = Str(SiteHost, TRUE, <<"course", "a">>, "")
    /\ UrlOf(returned[2]) = Str(SiteHost, TRUE, <<"course", "b">>, "")

(***************************************************************************)
(* C20: the detail fetch cannot deadlock and leaks nothing.  A task takes  *)
(* a permit of the semaphore before the limiter's lock and never the       *)
(* reverse; the lock is free again on every path out of wait(); the permit *)
(* is freed whether the URL succeeded or failed; so while a task is not    *)
(* done some task can step, and when scrape_courses returns all permits    *)
(* are free and the lock is unheld.                                        *)
(***************************************************************************)
HoldsPermit(t) == s_pc[t] \in {"limiter", "inlock", "get", "backoff"}

CanStep(t) ==
    \/ s_pc[t] = "sem" /\ sem > 0
    \/ s_pc[t] = "limiter" /\ lock_owner = 0
    \/ s_pc[t] \in {"inlock", "get", "backoff"}

C20_NoDeadlockNoLeak ==
    /\ sem >= 0
    /\ sem + Cardinality({t \in Tasks : HoldsPermit(t)}) = concurrency
    /\ lock_owner # 0 => lock_owner \in Tasks /\ s_pc[lock_owner] = "inlock"
    /\ \A t \in Tasks : s_pc[t] = "inlock" => lock_owner = t
    /\ \A t \in Tasks : s_pc[t] = "done" => result[t] \in {"record", "none"}
    /\ (\E t \in Tasks : s_pc[t] # "done") => \E t \in Tasks : CanStep(t)
    /\ m_pc = "returned" =>
          /\ sem = concurrency
          /\ lock_owner = 0
          /\ \A t \in Tasks : s_pc[t] = "done"

\* three URLs under two permits: one yields a record, one fails, and at
\* the return both permits and the lock are free
C20_Witness ==
    /\ m_pc = "returned"
    /\ Len(s_pc) = 3
    /\ concurrency = 2
    /\ sem = 2
    /\ lock_owner = 0
    /\ \E t \in Tasks : result[t] = "record"
    /\ \E t \in Tasks : result[t] = "none" /\ fetched[t] = "raised"
    /\ \E t \in Tasks : grants[t] > 1

====
